---- MODULE Spec2Model ----
(***************************************************************************)
(* Model of src/script.js: the DozeStudioAnimation controller.  It         *)
(* preloads FRAME_MAX_INDEX images, counts their load/error callbacks,     *)
(* becomes ready when the count reaches FRAME_MAX_INDEX, and then draws    *)
(* frames onto a canvas on timeline ticks, resize events and loadFrame     *)
(* calls.                                                                  *)
(*                                                                         *)
(* The frame count and the timeline's frame targets are scaled down (1345  *)
(* frames and targets 100..570 in the source); the viewport and image      *)
(* sizes are real pixel sizes.  frames.currentIndex is a float in the      *)
(* source: here it is a fixed-point number of 1/TicksPerTween frames.      *)
(***************************************************************************)
EXTENDS Integers, Sequences, FiniteSets, TLC

\* ---------------------------------------------------------------- bounds
\* CONFIG.FRAME_MAX_INDEX, 1345 in the source, scaled down.
FRAME_MAX_INDEX == 4

\* Playhead positions per tween; also the denominator of currentIndex.
TicksPerTween == 2

\* CONFIG.FRAME_PADDING
FRAME_PADDING == 4

\* CONFIG.FRAME_MAX_INDEX unscaled: the frame numbers generateImageUrl is
\* called with.
LastFrame == 1345

\* Canvas and image sides, in pixels, that renderImage is tried on besides
\* the viewport and picture sizes: 1 .. MaxDim.
MaxDim == 3

\* window.innerWidth x window.innerHeight values the browser may report.
Viewports == { <<800, 600>>, <<1000, 500>> }

\* Arguments a page script may pass to loadFrame: the ends of the valid range
\* and their neighbours.
FrameArgs == { -1, 0, FRAME_MAX_INDEX - 1, FRAME_MAX_INDEX, FRAME_MAX_INDEX + 1 }

\* The value of images[index] past the end of the array, and of a field
\* that holds null.
Undefined == [undefined |-> TRUE]

\* A canvas bitmap with nothing drawn on it.
Blank == [blank |-> TRUE]

\* Canvas sizes and picture sizes renderImage is tried on.
SurfaceSizes == Viewports \cup ((1 .. MaxDim) \X (1 .. MaxDim))
PictureSizes == { <<400, 300>>, <<400, 400>> } \cup ((1 .. MaxDim) \X (1 .. MaxDim))

\* ------------------------------------------------------------- rationals
RECURSIVE GCD(_, _)
GCD(a, b) == IF b = 0 THEN a ELSE GCD(b, a % b)

Abs(x) == IF x < 0 THEN -x ELSE x

\* n/d in lowest terms with a positive denominator (d # 0).
Rat(n, d) ==
    LET g == GCD(Abs(n), Abs(d))
        s == IF d < 0 THEN -1 ELSE 1
    IN  <<(s * n) \div g, (s * d) \div g>>

RatLeq(p, q) == p[1] * q[2] <= q[1] * p[2]
RatMax(p, q) == IF RatLeq(p, q) THEN q ELSE p
RatMul(p, q) == Rat(p[1] * q[1], p[2] * q[2])
RatSub(p, q) == Rat(p[1] * q[2] - q[1] * p[2], p[2] * q[2])
RatHalf(p)   == Rat(p[1], 2 * p[2])
RatOfInt(n)  == <<n, 1>>

\* ------------------------------------------------------------- the state
VARIABLES
    env,            \* what the page provides: canvas, context, gsap, loco,
                    \* and what drawImage does with a broken image
    viewport,       \* <<window.innerWidth, window.innerHeight>>
    canvas,         \* this.canvas: [width, height], or Undefined
    pixels,         \* what the canvas shows: Blank or the last drawImage
    images,         \* this.images: the Image objects, images[k+1] = JS images[k]
    imagesLoaded,   \* this.imagesLoaded
    isInitialized,  \* this.isInitialized
    currentIndex,   \* this.frames.currentIndex, in 1/TicksPerTween frames
    listening,      \* the resize listener is registered
    locoStarted,    \* new LocomotiveScroll() was run
    timeline,       \* the gsap timeline: Undefined, or [time, tweens]
    allLoadedCalls, \* number of calls of onAllImagesLoaded
    renderCalls,    \* whether renderImage was ever called
    thrown,         \* the last handler let an exception escape
    lastOp          \* the last handler that ran, with its argument

vars == <<env, viewport, canvas, pixels, images, imagesLoaded, isInitialized,
          currentIndex, listening, locoStarted, timeline, allLoadedCalls,
          renderCalls, thrown, lastOp>>

maxIndex == FRAME_MAX_INDEX

\* An integer frame index as a fixed-point value.
Fixed(i) == i * TicksPerTween

\* Math.floor of a fixed-point frame index (again fixed-point).
Floor(x) == Fixed(x \div TicksPerTween)

\* ------------------------------------------------------- frame locators
RECURSIVE Digits(_)
Digits(n) == IF n < 10 THEN <<n>> ELSE Digits(n \div 10) \o <<n % 10>>

\* padEnd in place of padStart.
RECURSIVE padStart_padEnd(_, _)
padStart_padEnd(s, len) ==
    IF Len(s) >= len THEN s ELSE padStart_padEnd(s \o <<0>>, len)

RECURSIVE padStart(_, _)
padStart(s, len) == IF Len(s) >= len THEN s ELSE padStart(<<0>> \o s, len)

generateImageUrl(index) ==
    [base |-> "./images/frame_",
     paddedIndex |-> padStart(Digits(index), FRAME_PADDING),
     ext |-> ".jpeg"]

\* The intrinsic size of the picture behind frame number k.
NaturalSize(k) == IF k % 2 = 1 THEN <<400, 300>> ELSE <<400, 400>>

\* new Image() with src set: the load is in flight.
NewImage(i) ==
    [src |-> generateImageUrl(i), frame |-> i, natural |-> NaturalSize(i),
     state |-> "pending"]

\* img.width / img.height: the intrinsic size once loaded, 0 otherwise.
ImgWidth(img)  == IF img.state = "loaded" THEN img.natural[1] ELSE 0
ImgHeight(img) == IF img.state = "loaded" THEN img.natural[2] ELSE 0

\* JS imgs[index] for a fixed-point index: undefined unless index is an
\* integer inside the array.
ImageAt(imgs, index) ==
    IF index % TicksPerTween = 0
       /\ (index \div TicksPerTween) \in 0 .. (Len(imgs) - 1)
    THEN imgs[(index \div TicksPerTween) + 1]
    ELSE Undefined

\* ------------------------------------------------------------- timeline
\* The frame tweens of buildAnimationTimeline, in list order, with their
\* position labels (sixteen tweens to 100 .. 570 in the source, of which the
\* two to 480 and 500 share the label 'twelveth'; scaled down).
FrameTweens ==
    << [target |-> 1, label |-> "first"],
       [target |-> 2, label |-> "twelveth"],
       [target |-> 3, label |-> "twelveth"] >>

NumTweens == Len(FrameTweens)

Max(a, b) == IF a >= b THEN a ELSE b
Min(a, b) == IF a <= b THEN a ELSE b

\* gsap places a tween at its label; a label not yet in the timeline is added
\* at the timeline's current end.  Every tween lasts TicksPerTween.
RECURSIVE TweenStart(_)
RECURSIVE EndOfFirst(_)
EndOfFirst(k) ==
    IF k = 0 THEN 0 ELSE Max(EndOfFirst(k - 1), TweenStart(k) + TicksPerTween)
TweenStart(k) ==
    LET same == { j \in 1 .. (k - 1) : FrameTweens[j].label = FrameTweens[k].label }
    IN  IF same # {}
        THEN TweenStart(CHOOSE j \in same : \A i \in same : j <= i)
        ELSE EndOfFirst(k - 1)

TweenEnd(k) == TweenStart(k) + TicksPerTween
TimelineDuration == EndOfFirst(NumTweens)

\* A tween that has not rendered yet has not recorded its start value.
NoStart == -1
NewTimeline ==
    [time |-> 0, tweens |-> [k \in 1 .. NumTweens |-> [start |-> NoStart, tTime |-> 0]]]

\* ------------------------------------------------------------- handlers
\* The controller's fields as the handlers read and write them; thrown says
\* that an exception is propagating out of the handler, and log lists the
\* frame indices the timeline's onUpdate callbacks have passed to loadImage
\* in this handler.
Machine ==
    [viewport |-> viewport, canvas |-> canvas, pixels |-> pixels,
     images |-> images, imagesLoaded |-> imagesLoaded,
     isInitialized |-> isInitialized, currentIndex |-> currentIndex,
     timeline |-> timeline, allLoadedCalls |-> allLoadedCalls,
     renderCalls |-> renderCalls, thrown |-> FALSE, log |-> << >>]

\* Assigning canvas.width/height resets the bitmap.
resizeCanvas(m) ==
    [m EXCEPT !.canvas = [width |-> m.viewport[1], height |-> m.viewport[2]],
              !.pixels = Blank]

\* renderImage with Math.min: the image is fitted inside the canvas.
Geometry_contain(cw, ch, iw, ih) ==
    LET scaleX    == Rat(cw, iw)
        scaleY    == Rat(ch, ih)
        scale     == IF RatLeq(scaleX, scaleY) THEN scaleX ELSE scaleY
        newWidth  == RatMul(RatOfInt(iw), scale)
        newHeight == RatMul(RatOfInt(ih), scale)
        offsetX   == RatHalf(RatSub(RatOfInt(cw), newWidth))
        offsetY   == RatHalf(RatSub(RatOfInt(ch), newHeight))
    IN  [scale |-> scale, newWidth |-> newWidth, newHeight |-> newHeight,
         offsetX |-> offsetX, offsetY |-> offsetY]

\* The cover geometry renderImage computes for a loaded image.
Geometry(cw, ch, iw, ih) ==
    LET scaleX    == Rat(cw, iw)
        scaleY    == Rat(ch, ih)
        scale     == RatMax(scaleX, scaleY)
        newWidth  == RatMul(RatOfInt(iw), scale)
        newHeight == RatMul(RatOfInt(ih), scale)
        offsetX   == RatHalf(RatSub(RatOfInt(cw), newWidth))
        offsetY   == RatHalf(RatSub(RatOfInt(ch), newHeight))
    IN  [scale |-> scale, newWidth |-> newWidth, newHeight |-> newHeight,
         offsetX |-> offsetX, offsetY |-> offsetY]

\* clearRect, then drawImage.  A loaded image is drawn.  An image whose load
\* failed is in the broken state and has width 0, so the geometry is NaN:
\* drawImage then either returns without drawing or throws InvalidStateError,
\* depending on the browser (env.brokenDrawThrows).  A pending image is not
\* drawn.
renderImage(m, img) ==
    LET cleared == [m EXCEPT !.pixels = Blank, !.renderCalls = TRUE]
    IN  CASE img.state = "loaded" ->
               [cleared EXCEPT !.pixels =
                   [src |-> img.src,
                    geometry |-> Geometry(m.canvas.width, m.canvas.height,
                                          ImgWidth(img), ImgHeight(img))]]
          [] img.state = "failed" ->
               [cleared EXCEPT !.thrown = env.brokenDrawThrows]
          [] OTHER -> cleared

isValidFrameIndex(index) == index >= 0 /\ index <= Fixed(maxIndex)

\* loadImage with resizeCanvas moved ahead of the index check.
loadImage_resizeFirst(m, index) ==
    LET m0 == resizeCanvas(m)
    IN  IF ~isValidFrameIndex(index) THEN m0
        ELSE LET img == ImageAt(m0.images, index)
             IN  IF img = Undefined THEN m0
                 ELSE LET r == renderImage(m0, img)
                      IN  IF r.thrown THEN r
                          ELSE [r EXCEPT !.currentIndex = index]

\* loadImage without the index check, moving the cursor whether or not an
\* image was drawn.
loadImage_noValidation(m, index) ==
    LET img == ImageAt(m.images, index)
        r   == IF img = Undefined THEN m
               ELSE renderImage(resizeCanvas(m), img)
    IN  IF r.thrown THEN r ELSE [r EXCEPT !.currentIndex = index]

\* loadImage drawing onto the canvas as it was last sized.
loadImage_noResize(m, index) ==
    IF ~isValidFrameIndex(index) THEN m
    ELSE LET img == ImageAt(m.images, index)
         IN  IF img = Undefined THEN m
             ELSE LET r == renderImage(m, img)
                  IN  IF r.thrown THEN r
                      ELSE [r EXCEPT !.currentIndex = index]

\* loadImage(index), index fixed-point.
loadImage(m, index) ==
    IF ~isValidFrameIndex(index) THEN m
    ELSE LET img == ImageAt(m.images, index)
         IN  IF img = Undefined THEN m
             ELSE LET r == renderImage(resizeCanvas(m), img)
                  IN  IF r.thrown THEN r
                      ELSE [r EXCEPT !.currentIndex = index]

\* startAnimation without the typeof check: gsap.timeline is a ReferenceError
\* on a page without gsap.
startAnimation_noCheck(m) ==
    IF ~env.gsap THEN [m EXCEPT !.thrown = TRUE]
    ELSE [m EXCEPT !.timeline = NewTimeline]

\* gsap.timeline({scrollTrigger ...}) and buildAnimationTimeline, or the
\* early return when gsap is not on the page.
startAnimation(m) ==
    IF ~env.gsap THEN m ELSE [m EXCEPT !.timeline = NewTimeline]

\* onAllImagesLoaded raising the ready flag after the first draw.
onAllImagesLoaded_readyLast(m) ==
    LET m1 == [m EXCEPT !.allLoadedCalls = m.allLoadedCalls + 1]
        m2 == loadImage(m1, m1.currentIndex)
    IN  IF m2.thrown THEN m2
        ELSE startAnimation([m2 EXCEPT !.isInitialized = TRUE])

onAllImagesLoaded(m) ==
    LET m1 == [m EXCEPT !.isInitialized = TRUE,
                        !.allLoadedCalls = m.allLoadedCalls + 1]
        m2 == loadImage(m1, m1.currentIndex)
    IN  IF m2.thrown THEN m2 ELSE startAnimation(m2)

\* handleImageLoad comparing against the last array index instead of the
\* frame count.
handleImageLoad_offByOne(m) ==
    LET m1 == [m EXCEPT !.imagesLoaded = m.imagesLoaded + 1]
    IN  IF m1.imagesLoaded >= maxIndex - 1 THEN onAllImagesLoaded(m1) ELSE m1

handleImageLoad(m) ==
    LET m1 == [m EXCEPT !.imagesLoaded = m.imagesLoaded + 1]
    IN  IF m1.imagesLoaded = maxIndex THEN onAllImagesLoaded(m1) ELSE m1

\* handleImageLoadError that only logs the failure.
handleImageLoadError_noCount(m) == m

handleImageLoadError(m) ==
    LET m1 == [m EXCEPT !.imagesLoaded = m.imagesLoaded + 1]
    IN  IF m1.imagesLoaded = maxIndex THEN onAllImagesLoaded(m1) ELSE m1

\* handleResize rounding the cursor up instead of down.
handleResize_roundUp(m) ==
    IF m.isInitialized
    THEN loadImage(m, Floor(m.currentIndex + TicksPerTween - 1))
    ELSE m

\* handleResize without the isInitialized guard.
handleResize_noGuard(m) == loadImage(m, Floor(m.currentIndex))

handleResize(m) ==
    IF m.isInitialized THEN loadImage(m, Floor(m.currentIndex)) ELSE m

\* loadFrame without the isInitialized guard.
loadFrame_noGuard(m, index) == loadImage(m, index)

loadFrame(m, index) ==
    IF m.isInitialized THEN loadImage(m, index) ELSE m

\* A tween that interpolates one frame past its target.
RenderTween_overshoot(m, k, local) ==
    LET tw    == m.timeline.tweens[k]
        start == IF tw.start = NoStart THEN m.currentIndex ELSE tw.start
        value == start + (((Fixed(FrameTweens[k].target + 1) - start) * local)
                          \div TicksPerTween)
        m1    == [m EXCEPT !.timeline.tweens[k] = [start |-> start, tTime |-> local],
                           !.currentIndex = value,
                           !.log = Append(m.log, Floor(value) \div TicksPerTween)]
    IN  loadImage(m1, Floor(m1.currentIndex))

\* One tween rendered at local time local: it records its start value the
\* first time, writes the interpolated value to frames.currentIndex and runs
\* createFrameUpdate's onUpdate.
RenderTween(m, k, local) ==
    LET tw    == m.timeline.tweens[k]
        start == IF tw.start = NoStart THEN m.currentIndex ELSE tw.start
        value == start + (((Fixed(FrameTweens[k].target) - start) * local)
                          \div TicksPerTween)
        m1    == [m EXCEPT !.timeline.tweens[k] = [start |-> start, tTime |-> local],
                           !.currentIndex = value,
                           !.log = Append(m.log, Floor(value) \div TicksPerTween)]
    IN  loadImage(m1, Floor(m1.currentIndex))

LocalTime(k, t) == Max(0, Min(TicksPerTween, t - TweenStart(k)))

\* The playhead moving forward to t renders, in list order, every tween that
\* has started by t and whose local time changes; an exception thrown by an
\* onUpdate ends the pass.
RECURSIVE RenderForward(_, _, _)
RenderForward(m, k, t) ==
    IF k > NumTweens \/ m.thrown THEN m
    ELSE LET tw    == m.timeline.tweens[k]
             local == LocalTime(k, t)
         IN  IF TweenStart(k) <= t /\ (tw.start = NoStart \/ local # tw.tTime)
             THEN RenderForward(RenderTween(m, k, local), k + 1, t)
             ELSE RenderForward(m, k + 1, t)

\* Moving backward renders, in reverse order, the tweens that have rendered
\* before and whose local time changes.
RECURSIVE RenderBackward(_, _, _)
RenderBackward(m, k, t) ==
    IF k < 1 \/ m.thrown THEN m
    ELSE LET tw    == m.timeline.tweens[k]
             local == LocalTime(k, t)
         IN  IF tw.start # NoStart /\ local # tw.tTime
             THEN RenderBackward(RenderTween(m, k, local), k - 1, t)
             ELSE RenderBackward(m, k - 1, t)

\* The scroll trigger moves the timeline's playhead to t.
renderTimeline(m, t) ==
    LET m1 == [m EXCEPT !.timeline.time = t]
    IN  IF t >= m.timeline.time THEN RenderForward(m1, 1, t)
        ELSE RenderBackward(m1, NumTweens, t)

\* ---------------------------------------------------------------- actions
\* The handler's result m becomes the next state.
Commit(m) ==
    /\ viewport' = m.viewport
    /\ canvas' = m.canvas
    /\ pixels' = m.pixels
    /\ images' = m.images
    /\ imagesLoaded' = m.imagesLoaded
    /\ isInitialized' = m.isInitialized
    /\ currentIndex' = m.currentIndex
    /\ timeline' = m.timeline
    /\ allLoadedCalls' = m.allLoadedCalls
    /\ renderCalls' = m.renderCalls
    /\ thrown' = m.thrown
    /\ UNCHANGED <<env, listening, locoStarted>>

\* initializeCanvas that does not check the 2D context.
SetupOk_noContextCheck(e) == e.canvas

\* initializeCanvas .. setupEventListeners inside init's try block.
SetupOk(e) == e.canvas /\ e.context

\* The state the constructor leaves behind on a page e with viewport vp.
Init ==
    \E e \in [canvas : BOOLEAN, context : BOOLEAN, gsap : BOOLEAN,
              loco : BOOLEAN, brokenDrawThrows : BOOLEAN],
       vp \in Viewports :
        /\ env = e
        /\ viewport = vp
        /\ canvas = IF SetupOk(e) THEN [width |-> vp[1], height |-> vp[2]]
                    ELSE IF e.canvas THEN [width |-> 300, height |-> 150]
                    ELSE Undefined
        /\ pixels = Blank
        /\ images = IF SetupOk(e) THEN [i \in 1 .. maxIndex |-> NewImage(i)]
                    ELSE << >>
        /\ imagesLoaded = 0
        /\ isInitialized = FALSE
        /\ currentIndex = 0
        /\ listening = SetupOk(e)
        /\ locoStarted = (SetupOk(e) /\ e.loco)
        /\ timeline = Undefined
        /\ allLoadedCalls = 0
        /\ renderCalls = FALSE
        /\ thrown = FALSE
        /\ lastOp = [op |-> "init", arg |-> 0]

\* img.onload of images[k]
ImageLoaded(k) ==
    /\ k \in 1 .. Len(images)
    /\ images[k].state = "pending"
    /\ \E m \in { handleImageLoad([Machine EXCEPT !.images[k].state = "loaded"]) } :
          Commit(m)
    /\ lastOp' = [op |-> "onload", arg |-> k]

\* img.onerror of images[k]
ImageError(k) ==
    /\ k \in 1 .. Len(images)
    /\ images[k].state = "pending"
    /\ \E m \in { handleImageLoadError([Machine EXCEPT !.images[k].state = "failed"]) } :
          Commit(m)
    /\ lastOp' = [op |-> "onerror", arg |-> k]

\* The window is resized to vp (or a resize event arrives with the size
\* unchanged) and the listener, when registered, runs.
WindowResize(vp) ==
    /\ \E m \in { IF listening
                    THEN handleResize([Machine EXCEPT !.viewport = vp])
                    ELSE [Machine EXCEPT !.viewport = vp] } :
          Commit(m)
    /\ lastOp' = [op |-> "resize", arg |-> 0]

\* A page script calls loadFrame(i).
LoadFrame(i) ==
    /\ canvas # Undefined
    /\ \E m \in { loadFrame(Machine, Fixed(i)) } : Commit(m)
    /\ lastOp' = [op |-> "loadFrame", arg |-> i]

\* The scroll position changes and the scrubbed timeline renders at t.
Tick(t) ==
    /\ timeline # Undefined
    /\ t # timeline.time
    /\ \E m \in { renderTimeline(Machine, t) } :
          /\ Commit(m)
          /\ lastOp' = [op |-> "tick", arg |-> t,
                        dir |-> IF t > timeline.time THEN "forward" ELSE "backward",
                        renders |-> m.log]

Next ==
    \/ \E k \in 1 .. maxIndex : ImageLoaded(k)
    \/ \E k \in 1 .. maxIndex : ImageError(k)
    \/ \E vp \in Viewports : WindowResize(vp)
    \/ \E i \in FrameArgs : LoadFrame(i)
    \/ \E t \in 0 .. TimelineDuration : Tick(t)

Spec == Init /\ [][Next]_vars

\* The page as long as no script calls loadFrame.
ScrollNext ==
    \/ \E k \in 1 .. maxIndex : ImageLoaded(k)
    \/ \E k \in 1 .. maxIndex : ImageError(k)
    \/ \E vp \in Viewports : WindowResize(vp)
    \/ \E t \in 0 .. TimelineDuration : Tick(t)

ScrollSpec == Init /\ [][ScrollNext]_vars

\* --------------------------------------------- the pure methods on their own
\* A page with everything on it, just constructed.
FullPage ==
    [canvas |-> TRUE, context |-> TRUE, gsap |-> TRUE, loco |-> TRUE,
     brokenDrawThrows |-> FALSE]

PureInit == Init /\ env = FullPage /\ viewport = <<800, 600>>

\* generateImageUrl(i) is called and its value kept.
CallGenerateImageUrl(i) ==
    /\ lastOp' = [op |-> "generateImageUrl", arg |-> i,
                  result |-> generateImageUrl(i)]
    /\ UNCHANGED <<env, viewport, canvas, pixels, images, imagesLoaded,
                   isInitialized, currentIndex, listening, locoStarted,
                   timeline, allLoadedCalls, renderCalls, thrown>>

UrlNext == \E i \in 1 .. LastFrame : CallGenerateImageUrl(i)

UrlSpec == PureInit /\ [][UrlNext]_vars

\* renderImage(img) is called with the canvas sized surface and a loaded
\* picture of size picture.
CallRenderImage(surface, picture) ==
    /\ \E m \in { renderImage(
                     [Machine EXCEPT !.canvas = [width |-> surface[1],
                                                 height |-> surface[2]]],
                     [src |-> generateImageUrl(1), frame |-> 1,
                      natural |-> picture, state |-> "loaded"]) } :
          Commit(m)
    /\ lastOp' = [op |-> "renderImage", arg |-> <<surface, picture>>]

GeomNext ==
    \E surface \in SurfaceSizes, picture \in PictureSizes :
        CallRenderImage(surface, picture)

GeomSpec == PureInit /\ [][GeomNext]_vars

\* ----------------------------------------------------------------- claims
Resolved == { k \in 1 .. Len(images) : images[k].state # "pending" }
Failed   == { k \in 1 .. Len(images) : images[k].state = "failed" }
Loaded   == { k \in 1 .. Len(images) : images[k].state = "loaded" }

CanvasSize == <<canvas.width, canvas.height>>

\* C1: onAllImagesLoaded has run exactly once when all maxIndex load callbacks
\* have occurred and not at all while fewer have, whatever their order and
\* whichever of them were errors.
C1_AllLoadedOnce ==
    SetupOk(env) =>
        /\ imagesLoaded = Cardinality(Resolved)
        /\ allLoadedCalls = IF Cardinality(Resolved) = maxIndex THEN 1 ELSE 0

C1_Witness ==
    /\ allLoadedCalls = 1
    /\ Failed # {}
    /\ Loaded # {}
    /\ lastOp.op = "tick"

\* C2: after loadFrame(i) in the ready state, for a frame i in 1..maxIndex
\* whose slot loaded, the canvas shows the image loaded from the locator of
\* frame i and currentIndex is i.
C2_RenderDrawsSlot ==
    (/\ lastOp.op = "loadFrame"
     /\ isInitialized
     /\ lastOp.arg \in 1 .. maxIndex
     /\ images[lastOp.arg].state = "loaded")
    => /\ pixels # Blank
       /\ pixels.src = generateImageUrl(lastOp.arg)
       /\ currentIndex = Fixed(lastOp.arg)

\* C3: loadFrame(i) in the ready state, for an index i in [0, maxIndex] whose
\* image failed to load, changes neither the canvas size, nor its pixels, nor
\* currentIndex, and throws nothing.
C3_FailedSlotIsNoOp ==
    [][ (/\ lastOp'.op = "loadFrame"
         /\ isInitialized
         /\ isValidFrameIndex(Fixed(lastOp'.arg))
         /\ ImageAt(images, Fixed(lastOp'.arg)) # Undefined
         /\ ImageAt(images, Fixed(lastOp'.arg)).state = "failed")
        => (UNCHANGED <<canvas, pixels, currentIndex>> /\ thrown' = FALSE) ]_vars

\* C4: loadFrame(i) with i < 0 or i > maxIndex changes neither the canvas
\* size, nor its pixels, nor currentIndex, and throws nothing.
C4_OutOfRangeIsNoOp ==
    [][ (/\ lastOp'.op = "loadFrame"
         /\ (lastOp'.arg < 0 \/ lastOp'.arg > maxIndex))
        => (UNCHANGED <<canvas, pixels, currentIndex>> /\ thrown' = FALSE) ]_vars

C4_Witness ==
    /\ lastOp.op = "loadFrame"
    /\ lastOp.arg > maxIndex
    /\ isInitialized
    /\ pixels # Blank

\* C5: once all maxIndex slots have resolved on a page that has gsap, the
\* scroll timeline has been started, whichever slots failed.
C5_TimelineStarted ==
    (SetupOk(env) /\ env.gsap /\ Cardinality(Resolved) = maxIndex)
    => timeline # Undefined

\* C6: once every issued load has resolved, by its load or its error
\* callback, the controller is ready; also when every load failed.
C6_ReadyWhenAllResolved ==
    (SetupOk(env) /\ Cardinality(Resolved) = maxIndex) => isInitialized

C6_Witness ==
    /\ isInitialized
    /\ Cardinality(Failed) = maxIndex

\* C7: 0 <= currentIndex <= maxIndex in every reachable state.
C7_CursorInRange == 0 <= currentIndex /\ currentIndex <= Fixed(maxIndex)

C7_Witness ==
    /\ lastOp.op = "tick"
    /\ currentIndex % TicksPerTween # 0
    /\ thrown

\* C8: loadFrame(i) while fewer than maxIndex slots have resolved draws
\* nothing and leaves the canvas, currentIndex, imagesLoaded and isInitialized
\* as they were.
C8_LoadFrameIgnoredBeforeReady ==
    [][ (lastOp'.op = "loadFrame" /\ imagesLoaded < maxIndex)
        => UNCHANGED <<canvas, pixels, currentIndex, imagesLoaded,
                       isInitialized, renderCalls>> ]_vars

C8_Witness ==
    /\ SetupOk(env)
    /\ lastOp.op = "loadFrame"
    /\ lastOp.arg = 0
    /\ imagesLoaded < maxIndex
    /\ images[1].state = "loaded"

\* C9: a resize event while fewer than maxIndex slots have resolved renders
\* nothing and throws nothing, and nothing is rendered before
\* onAllImagesLoaded has run.
C9_ResizeBeforeReady ==
    /\ [][ (lastOp'.op = "resize" /\ imagesLoaded < maxIndex)
           => (UNCHANGED <<pixels, renderCalls>> /\ thrown' = FALSE) ]_vars
    /\ [](renderCalls => allLoadedCalls >= 1)

C9_Witness ==
    /\ listening
    /\ lastOp.op = "resize"
    /\ imagesLoaded = 0
    /\ CanvasSize # viewport

\* C10: once the resize listener is registered, the canvas has the size of
\* the viewport after every resize event, ready or not.
C10_CanvasMirrorsViewport ==
    listening => CanvasSize = viewport

\* C11: whatever the canvas shows was drawn with the cover geometry of the
\* viewport as it is now: no draw uses the size of an earlier viewport.
C11_DrawUsesCurrentViewport ==
    (listening /\ pixels # Blank) =>
        \E k \in 1 .. Len(images) :
            /\ images[k].src = pixels.src
            /\ pixels.geometry =
                   Geometry(viewport[1], viewport[2],
                            NaturalSize(k)[1], NaturalSize(k)[2])

C11_Witness ==
    /\ listening
    /\ pixels # Blank
    /\ lastOp.op = "resize"
    /\ viewport = <<1000, 500>>
    /\ currentIndex = Fixed(maxIndex - 1)

\* C12: on a page without the canvas element or without its 2D context no
\* image load is issued, no resize listener is registered, no timeline is
\* built and isInitialized stays false.
C12_FailedSetupLeavesNothing ==
    (~env.canvas \/ ~env.context) =>
        /\ images = << >>
        /\ ~listening
        /\ timeline = Undefined
        /\ ~isInitialized
        /\ imagesLoaded = 0
        /\ ~renderCalls

C12_Witness ==
    /\ env.canvas
    /\ ~env.context
    /\ lastOp.op = "resize"
    /\ viewport = <<1000, 500>>

\* C13: on a page without LocomotiveScroll or without gsap (or both) all
\* maxIndex loads are issued and the resize listener is registered, the
\* controller is ready once all loads have resolved, the ready transition
\* draws the initial frame and throws nothing when that frame loaded, and
\* only the missing library's feature is off.
C13_MissingLibraryDegrades ==
    (SetupOk(env) /\ (~env.loco \/ ~env.gsap)) =>
        /\ Len(images) = maxIndex
        /\ listening
        /\ (Cardinality(Resolved) = maxIndex => isInitialized)
        /\ (/\ lastOp.op \in {"onload", "onerror"}
            /\ imagesLoaded = maxIndex
            /\ images[1].state = "loaded")
           => (/\ pixels # Blank
               /\ pixels.src = images[1].src
               /\ ~thrown)
        /\ locoStarted = env.loco
        /\ (~env.gsap => timeline = Undefined)
        /\ (env.gsap /\ isInitialized /\ images[1].state = "loaded")
           => timeline # Undefined

C13_Witness ==
    /\ SetupOk(env)
    /\ ~env.loco
    /\ ~env.gsap
    /\ lastOp.op = "onerror"
    /\ imagesLoaded = maxIndex
    /\ pixels # Blank

RatEq(p, q) == p[1] * q[2] = q[1] * p[2]

RECURSIVE DigitsValue(_)
DigitsValue(s) ==
    IF s = << >> THEN 0 ELSE 10 * DigitsValue(SubSeq(s, 1, Len(s) - 1)) + s[Len(s)]

\* C15: for every frame number i in 1 .. 1345 the locator is the base path,
\* frame_, the decimal digits of i left-padded with zeros to exactly 4 digits,
\* and .jpeg, so that the locator determines i (frame 7 gives frame_0007.jpeg,
\* frame 1345 gives frame_1345.jpeg); and preloadImages has issued one load
\* per frame number, in order, each with the locator of its frame.
C15_LocatorOfFrame ==
    /\ Len(images) = maxIndex
    /\ \A k \in 1 .. maxIndex :
           images[k].frame = k /\ images[k].src = generateImageUrl(k)
    /\ lastOp.op = "generateImageUrl" =>
           LET url == lastOp.result
               i   == lastOp.arg
           IN  /\ url.base = "./images/frame_"
               /\ url.ext = ".jpeg"
               /\ Len(url.paddedIndex) = 4
               /\ \A d \in 1 .. 4 : url.paddedIndex[d] \in 0 .. 9
               /\ DigitsValue(url.paddedIndex) = i
               /\ (i = 7 => url.paddedIndex = <<0, 0, 0, 7>>)
               /\ (i = 1345 => url.paddedIndex = <<1, 3, 4, 5>>)

C15_Witness ==
    /\ lastOp.op = "generateImageUrl"
    /\ lastOp.arg = 7
    /\ Len(images) = maxIndex

NonDecreasing(q) == \A a, b \in 1 .. Len(q) : a <= b => q[a] <= q[b]
NonIncreasing(q) == \A a, b \in 1 .. Len(q) : a <= b => q[a] >= q[b]

LastTarget == FrameTweens[NumTweens].target

\* C16: the frame targets increase strictly in list order, and the frame
\* indices the ticks pass to loadImage never go down while the scroll
\* position only goes up, and never go up while it only goes down, within a
\* tick and from one tick to the next, also in the window that two frame
\* tweens share.
C16_FrameCursorMonotone ==
    /\ [](\A k \in 1 .. (NumTweens - 1) :
             FrameTweens[k].target < FrameTweens[k + 1].target)
    /\ [][ (lastOp'.op = "tick" /\ lastOp'.dir = "forward")
           => /\ NonDecreasing(lastOp'.renders)
              /\ (lastOp.op = "tick" /\ lastOp.dir = "forward")
                 => NonDecreasing(lastOp.renders \o lastOp'.renders) ]_vars
    /\ [][ (lastOp'.op = "tick" /\ lastOp'.dir = "backward")
           => /\ NonIncreasing(lastOp'.renders)
              /\ (lastOp.op = "tick" /\ lastOp.dir = "backward")
                 => NonIncreasing(lastOp.renders \o lastOp'.renders) ]_vars

\* C19: as long as loadFrame is not called, currentIndex never exceeds the
\* last timeline target, no tick asks for a frame index beyond it and the
\* canvas never shows an image from beyond it.
C19_CursorWithinTimeline ==
    /\ currentIndex <= Fixed(LastTarget)
    /\ lastOp.op = "tick" =>
           \A a \in 1 .. Len(lastOp.renders) : lastOp.renders[a] <= LastTarget
    /\ (listening /\ pixels # Blank) =>
           \E k \in 1 .. Len(images) :
               images[k].src = pixels.src /\ k - 1 <= LastTarget

C19_Witness ==
    /\ lastOp.op = "tick"
    /\ lastOp.arg = TimelineDuration
    /\ currentIndex = Fixed(LastTarget)
    /\ pixels # Blank

\* C17: a resize event that follows a resize event, with the viewport
\* unchanged between them, changes nothing: two handleResize calls leave the
\* controller as one does; and in the ready state handleResize never changes
\* floor(currentIndex).
C17_ResizeIdempotent ==
    /\ [][ (lastOp.op = "resize" /\ lastOp'.op = "resize" /\ viewport' = viewport)
           => UNCHANGED <<canvas, pixels, currentIndex, isInitialized,
                          imagesLoaded, timeline, thrown>> ]_vars
    /\ [][ (lastOp'.op = "resize" /\ isInitialized)
           => Floor(currentIndex') = Floor(currentIndex) ]_vars

C17_Witness ==
    /\ lastOp.op = "resize"
    /\ isInitialized
    /\ pixels # Blank
    /\ currentIndex = Fixed(1)
    /\ timeline # Undefined
    /\ timeline.time = TweenStart(2) + 1

\* C18: 0 <= imagesLoaded <= maxIndex and imagesLoaded never decreases;
\* isInitialized is true exactly when imagesLoaded = maxIndex and, once true,
\* stays true.
C18_CountAndReadyFlag ==
    /\ [](/\ 0 <= imagesLoaded
          /\ imagesLoaded <= maxIndex
          /\ isInitialized <=> (imagesLoaded = maxIndex))
    /\ [][ /\ imagesLoaded' >= imagesLoaded
           /\ isInitialized => isInitialized' ]_vars

C18_Witness ==
    /\ isInitialized
    /\ imagesLoaded = maxIndex
    /\ thrown
    /\ lastOp.op = "onerror"
====
